---- MODULE Spec2Model ----
(***************************************************************************)
(* The Streamlit application app.py as a state machine.                    *)
(*                                                                         *)
(* One browser session drives the script: every click reruns the script    *)
(* from the top.  The process-wide resource cache of load_artifacts, the   *)
(* session state and the artifact files on disk survive a rerun; the       *)
(* locals of main() do not.                                                 *)
(*                                                                         *)
(* Numbers: a DataFrame cell carries its dtype.  An "int" cell holds the   *)
(* integer itself, a "float" cell holds the value in tenths (25.0 is 250), *)
(* so that the int -> float change made by the scaler and the float -> int *)
(* change made by astype(int) are visible.  Money is held in mills         *)
(* (thousandths of a dollar) and formatted to cents.                       *)
(***************************************************************************)
EXTENDS Integers, Sequences, FiniteSets, TLC

\* How far beyond each limit of a form widget the user's attempts reach.
Probe == 0

\* How many artifact files are missing from the working directory at once.
MaxMissing == 1

----------------------------------------------------------------------------
(* Form widgets: st.slider / st.number_input limits and defaults.          *)

AgeMin == 18
AgeMax == 100
AgeDefault == 30
ChildrenMin == 0
ChildrenMax == 10
\* bmi is a float slider with step 0.1: tenths.
BmiMin == 100
BmiMax == 600
BmiDefault == 250
BpMin == 60
BpMax == 200
BpDefault == 120

----------------------------------------------------------------------------
(* Values.                                                                 *)

None == [kind |-> "none"]
Missing == [kind |-> "missing"]

IntCell(n) == [t |-> "int", v |-> n, s |-> ""]
FloatCell(tenths) == [t |-> "float", v |-> tenths, s |-> ""]
StrCell(x) == [t |-> "str", v |-> 0, s |-> x]
\* An exception travelling in place of a value.
ErrCell(name) == [t |-> "err", v |-> 0, s |-> name]

IsErr(c) == c.t = "err"

\* The numeric value of a cell, in tenths.
Tenths(c) == IF c.t = "int" THEN c.v * 10 ELSE c.v

Range(seq) == {seq[i] : i \in 1..Len(seq)}

IndexOf(seq, x) == CHOOSE i \in 1..Len(seq) : seq[i] = x

\* Integer division truncating toward zero: the float -> int cast, and the
\* scaler's quotient cut to the tenth.
TruncDiv(a, b) == IF a >= 0 THEN a \div b ELSE -((-a) \div b)

----------------------------------------------------------------------------
(* The artifact files and what they can hold.                              *)

ScalerFile == "scaler.joblib"
GenderFile == "label_encoder_gender.pkl"
SmokerFile == "label_encoder_smoker.pkl"
DiabeticFile == "label_encoder_diabetic.pkl"
ModelFile == "best_model.pkl"

\* The order in which load_artifacts reads them.
LoadOrder == <<ScalerFile, GenderFile, SmokerFile, DiabeticFile, ModelFile>>

Files == Range(LoadOrder)

\* A fitted LabelEncoder: classes_ is the sorted list of the labels seen.
GenderEncoder == [kind |-> "encoder", classes |-> <<"female", "male">>]
YesNoEncoder == [kind |-> "encoder", classes |-> <<"No", "Yes">>]

\* A fitted scaler over (age, bmi, bloodpressure): mean and scale in tenths.
IdentityScaler == [kind |-> "scaler", mean |-> <<0, 0, 0>>, scale |-> <<10, 10, 10>>]
StandardScaler == [kind |-> "scaler", mean |-> <<400, 300, 1000>>, scale |-> <<150, 60, 200>>]

\* A trained regressor, opaque to the application: a stub that is linear in
\* the feature vector (distinct weights, so that the column order matters)
\* and that rejects a vector of another width than it was trained on.
LinearModel == [kind |-> "model", nfeat |-> 7, bias |-> 9000003,
                w |-> <<23, 1700, 31, 11, 2900, 410, 37000>>]
NarrowModel == [kind |-> "model", nfeat |-> 6, bias |-> 9000003,
                w |-> <<23, 1700, 31, 11, 2900, 410>>]

Variants(f) ==
    CASE f = ScalerFile -> {IdentityScaler, StandardScaler}
      [] f = GenderFile -> {GenderEncoder}
      [] f = SmokerFile -> {YesNoEncoder}
      [] f = DiabeticFile -> {YesNoEncoder}
      [] OTHER -> {LinearModel, NarrowModel}

----------------------------------------------------------------------------
(* Theme: toggle_theme and load_css.                                       *)

\* toggle_theme(): st.session_state.dark_mode = not st.session_state.dark_mode
ToggledTheme(ss) == [ss EXCEPT !["dark_mode"] = ~ss["dark_mode"]]

\* The palette load_css(is_dark) puts into the style sheet.
load_css(is_dark) ==
    IF is_dark
    THEN [text_color |-> "#ecf0f1", accent_color |-> "#00e5ff",
          button_bg |-> "#2980b9", button_hover |-> "#3498db",
          result_box_bg |-> "#2c3e50"]
    ELSE [text_color |-> "#2c3e50", accent_color |-> "#2c3e50",
          button_bg |-> "#4CAF50", button_hover |-> "#45a049",
          result_box_bg |-> "#2c3e50"]

----------------------------------------------------------------------------
(* The DataFrame of one row and the transforms of the pipeline.            *)

\* The column order of input_dict.
InputCols == <<"age", "bmi", "children", "bloodpressure", "gender", "diabetic", "smoker">>

\* input_df = pd.DataFrame(input_dict)
MakeInputDf(rec) ==
    [cols |-> InputCols,
     row |-> [c \in Range(InputCols) |->
                CASE c = "age" -> IntCell(rec.age)
                  [] c = "bmi" -> FloatCell(rec.bmi)
                  [] c = "children" -> IntCell(rec.children)
                  [] c = "bloodpressure" -> IntCell(rec.bloodpressure)
                  [] c = "gender" -> StrCell(rec.gender)
                  [] c = "diabetic" -> StrCell(rec.diabetic)
                  [] OTHER -> StrCell(rec.smoker)]]

\* Variant: an unseen label falls back to code 0.
EncoderTransformDefault(le, c) ==
    IF c.t = "str" /\ c.s \in Range(le.classes)
    THEN IntCell(IndexOf(le.classes, c.s) - 1)
    ELSE IntCell(0)

\* le.transform(column): the position of the label in classes_; a label that
\* is not in classes_ raises ValueError (previously unseen labels).
EncoderTransform(le, c) ==
    IF c.t = "str" /\ c.s \in Range(le.classes)
    THEN IntCell(IndexOf(le.classes, c.s) - 1)
    ELSE ErrCell("ValueError")

\* The three encodings, in the order main applies them.
EncodeAll(df, art) ==
    LET g == EncoderTransform(art.le_gender, df.row["gender"])
        d == EncoderTransform(art.le_diabetic, df.row["diabetic"])
        s == EncoderTransform(art.le_smoker, df.row["smoker"])
    IN  IF IsErr(g) THEN [ok |-> FALSE, df |-> df, exc |-> g.s]
        ELSE IF IsErr(d) THEN [ok |-> FALSE, df |-> [df EXCEPT !.row["gender"] = g], exc |-> d.s]
        ELSE IF IsErr(s)
             THEN [ok |-> FALSE,
                   df |-> [df EXCEPT !.row["gender"] = g, !.row["diabetic"] = d],
                   exc |-> s.s]
        ELSE [ok |-> TRUE,
              df |-> [df EXCEPT !.row["gender"] = g, !.row["diabetic"] = d,
                                !.row["smoker"] = s],
              exc |-> ""]

\* Variant: children listed among the scaled columns in place of bloodpressure.
NumFeaturesWithChildren == <<"age", "bmi", "children">>

\* num_features
NumFeatures == <<"age", "bmi", "bloodpressure">>

\* scaler.transform(X): (x - mean) / scale per column, as floats; a width
\* other than the fitted one raises ValueError.
ScalerTransform(scaler, xs) ==
    IF Len(xs) # Len(scaler.mean)
    THEN [ok |-> FALSE, out |-> <<>>]
    ELSE [ok |-> TRUE,
          out |-> [i \in 1..Len(xs) |->
                     FloatCell(TruncDiv((Tenths(xs[i]) - scaler.mean[i]) * 10,
                                        scaler.scale[i]))]]

\* Variant: the scaler is refitted on the row it transforms.
ScalerRefit(scaler, xs) ==
    [scaler EXCEPT !.mean = [i \in 1..Len(xs) |-> Tenths(xs[i])]]

\* transform reads the fitted parameters and leaves the scaler as it was.
ScalerAfterTransform(scaler, xs) == scaler

\* input_df[num_features] = scaler.transform(input_df[num_features])
ScaleStep(df, scaler) ==
    LET xs == [i \in 1..Len(NumFeatures) |-> df.row[NumFeatures[i]]]
        r == ScalerTransform(scaler, xs)
    IN  IF ~r.ok THEN [ok |-> FALSE, df |-> df, exc |-> "ValueError"]
        ELSE [ok |-> TRUE,
              df |-> [df EXCEPT !.row =
                        [c \in DOMAIN df.row |->
                           IF c \in Range(NumFeatures)
                           THEN r.out[IndexOf(NumFeatures, c)]
                           ELSE df.row[c]]],
              exc |-> ""]

\* The columns cast by astype(int).
CatCols == <<"gender", "diabetic", "smoker">>

\* column.astype(int): floats are truncated, a string that is no number raises.
AsTypeInt(c) ==
    CASE c.t = "int" -> c
      [] c.t = "float" -> IntCell(TruncDiv(c.v, 10))
      [] OTHER -> ErrCell("ValueError")

\* Variant: the columns are left in the order of input_dict.
ModelColsDictOrder == InputCols

\* model_cols
ModelCols == <<"age", "gender", "bmi", "bloodpressure", "diabetic", "children", "smoker">>

\* df[cols]: the named columns, in the order asked for.
SelectCols(df, cols) ==
    [cols |-> cols, row |-> [c \in Range(cols) |-> df.row[c]]]

\* The astype loop and final_input = input_df[model_cols].
CoerceStep(df) ==
    LET cast == [c \in DOMAIN df.row |->
                   IF c \in Range(CatCols) THEN AsTypeInt(df.row[c]) ELSE df.row[c]]
    IN  IF \E c \in Range(CatCols) : IsErr(cast[c])
        THEN [ok |-> FALSE, df |-> df, final |-> None, exc |-> "ValueError"]
        ELSE [ok |-> TRUE, df |-> [df EXCEPT !.row = cast],
              final |-> SelectCols([df EXCEPT !.row = cast], ModelCols), exc |-> ""]

\* The row of a DataFrame as the vector the predictor sees.
RowVector(df) == [i \in 1..Len(df.cols) |-> df.row[df.cols[i]]]

RECURSIVE Dot(_, _, _)
Dot(w, vec, n) == IF n = 0 THEN 0 ELSE Dot(w, vec, n - 1) + w[n] * Tenths(vec[n])

\* model.predict(final_input)[0], in mills; the model raises ValueError on a
\* vector of a width it was not trained on.
Predict(model, vec) ==
    IF Len(vec) # model.nfeat
    THEN [ok |-> FALSE, value |-> 0, exc |-> "ValueError"]
    ELSE [ok |-> TRUE, value |-> model.bias + Dot(model.w, vec, Len(vec)), exc |-> ""]

----------------------------------------------------------------------------
(* f"${prediction:,.2f}" as a sequence of characters.                      *)

Digit(d) == <<"0", "1", "2", "3", "4", "5", "6", "7", "8", "9">>[d + 1]

\* Three digits, zero padded.
Pad3(n) == <<Digit(n \div 100), Digit((n \div 10) % 10), Digit(n % 10)>>

\* A number below 1000 without leading zeros.
Plain(n) ==
    IF n < 10 THEN <<Digit(n)>>
    ELSE IF n < 100 THEN <<Digit(n \div 10), Digit(n % 10)>>
    ELSE Pad3(n)

RECURSIVE Grouped(_)
\* The "," format option: groups of three digits.
Grouped(n) ==
    IF n < 1000 THEN Plain(n)
    ELSE Grouped(n \div 1000) \o <<",">> \o Pad3(n % 1000)

\* ".2f": to cents, ties to the even cent.
RoundToCents(mills) ==
    LET q == mills \div 10
        r == mills % 10
    IN  IF r > 5 \/ (r = 5 /\ q % 2 = 1) THEN q + 1 ELSE q

FormatMoney(mills) ==
    LET neg == mills < 0
        cents == RoundToCents(IF neg THEN -mills ELSE mills)
    IN  <<"$">> \o (IF neg THEN <<"-">> ELSE <<>>) \o Grouped(cents \div 100)
        \o <<".", Digit((cents % 100) \div 10), Digit(cents % 10)>>

----------------------------------------------------------------------------
(* What the page shows.                                                    *)

El(kind, text, value) == [kind |-> kind, text |-> text, value |-> value]

ToggleEl == El("toggle", "Dark Mode", <<>>)
TitleEl == El("title", "Health Insurance Cost Estimator", <<>>)
FormEl == El("form", "main_form", <<>>)
\* st.error(...)
ErrorEl(text) == El("error", text, <<>>)
\* The result box with the formatted premium.
ResultEl(chars) == El("result", "Estimated Yearly Premium", chars)
\* An exception that leaves main() is caught by the script runner, which
\* shows it on the page and ends the run.
ExceptionEl(name) == El("exception", name, <<>>)

\* components.html(...): the script that scrolls to the result box.
ScrollEl == El("script", "scrollIntoView", <<>>)

LoadErrorEl == ErrorEl("Error loading models. Please check files.")
PredictionErrorEl(exc) == ErrorEl("Prediction Error: " \o exc)

Shows(scr, kind) == \E i \in 1..Len(scr) : scr[i].kind = kind

\* The outputs a request can end with.
OutputKinds == {"result", "error", "exception"}

Outputs(scr) == {i \in 1..Len(scr) : scr[i].kind \in OutputKinds}

\* The output the page ends with, if it shows one.
Output(scr) ==
    IF Outputs(scr) = {} THEN El("none", "", <<>>)
    ELSE scr[CHOOSE i \in Outputs(scr) : \A j \in Outputs(scr) : j <= i]

----------------------------------------------------------------------------
(* load_artifacts under st.cache_resource.                                 *)

\* Variant: a missing file is skipped and the tuple returned with a gap.
load_artifacts_skip_missing(d) ==
    [ok |-> TRUE,
     read |-> {f \in Files : d[f] # Missing},
     value |-> [scaler |-> d[ScalerFile], le_gender |-> d[GenderFile],
                le_smoker |-> d[SmokerFile], le_diabetic |-> d[DiabeticFile],
                model |-> d[ModelFile]]]

\* The body: five joblib.load calls in LoadOrder; the first missing file
\* raises FileNotFoundError and ends the call.
load_artifacts(d) ==
    LET gone == {i \in 1..Len(LoadOrder) : d[LoadOrder[i]] = Missing}
        stop == IF gone = {} THEN Len(LoadOrder) + 1
                ELSE CHOOSE i \in gone : \A j \in gone : i <= j
    IN  [ok |-> gone = {},
         read |-> {LoadOrder[i] : i \in 1..(stop - 1)},
         value |-> IF gone = {}
                   THEN [scaler |-> d[ScalerFile], le_gender |-> d[GenderFile],
                         le_smoker |-> d[SmokerFile], le_diabetic |-> d[DiabeticFile],
                         model |-> d[ModelFile]]
                   ELSE None]

\* Variant: no cache, the body runs on every call.
CacheResourceAlwaysLoad(c, d) ==
    LET r == load_artifacts(d)
    IN  [ok |-> r.ok, value |-> r.value, read |-> r.read,
         cache |-> IF r.ok THEN r.value ELSE c]

\* @st.cache_resource: a stored result is returned without running the body;
\* a result is stored only when the body returns.
CacheResource(c, d) ==
    IF c # None
    THEN [ok |-> TRUE, value |-> c, read |-> {}, cache |-> c]
    ELSE LET r == load_artifacts(d)
         IN  [ok |-> r.ok, value |-> r.value, read |-> r.read,
              cache |-> IF r.ok THEN r.value ELSE None]

\* Variant: the except branch reports the error and does not return.
MainAfterLoadNoReturn(r, scr) ==
    IF r.ok
    THEN [pc |-> "form", screen |-> scr, artifacts |-> r.value]
    ELSE [pc |-> "form", screen |-> Append(scr, LoadErrorEl), artifacts |-> None]

\* try: ... = load_artifacts()  except FileNotFoundError: st.error(...); return
MainAfterLoad(r, scr) ==
    IF r.ok
    THEN [pc |-> "form", screen |-> scr, artifacts |-> r.value]
    ELSE [pc |-> "idle", screen |-> Append(scr, LoadErrorEl), artifacts |-> None]

----------------------------------------------------------------------------
(* The form.                                                               *)

\* The record of the spec's example scenario.
ExampleRecord ==
    [age |-> AgeDefault, bmi |-> BmiDefault, children |-> ChildrenMin,
     bloodpressure |-> BpDefault, gender |-> "male", diabetic |-> "No", smoker |-> "No"]

\* Values a user tries around the limits lo..hi of a numeric widget.
Around(lo, hi) ==
    UNION {{lo - 1 - k, lo + k, hi - k, hi + 1 + k} : k \in 0..Probe}

\* The records a user tries to submit: the example with one field changed.
Attempts ==
    {ExampleRecord}
    \cup {[ExampleRecord EXCEPT !.age = a] : a \in Around(AgeMin, AgeMax)}
    \cup {[ExampleRecord EXCEPT !.bmi = b] : b \in Around(BmiMin, BmiMax)}
    \cup {[ExampleRecord EXCEPT !.children = n] : n \in Around(ChildrenMin, ChildrenMax)}
    \cup {[ExampleRecord EXCEPT !.bloodpressure = b] : b \in Around(BpMin, BpMax)}
    \cup {[ExampleRecord EXCEPT !.gender = g] : g \in {"female", "other"}}
    \cup {[ExampleRecord EXCEPT !.diabetic = x] : x \in {"Yes", "Maybe"}}
    \cup {[ExampleRecord EXCEPT !.smoker = x] : x \in {"Yes", "Maybe"}}

\* Variant: the age slider's upper limit is off by one.
FormAcceptsLoose(r, art) ==
    /\ AgeMin <= r.age /\ r.age <= AgeMax + 1
    /\ ChildrenMin <= r.children /\ r.children <= ChildrenMax
    /\ BmiMin <= r.bmi /\ r.bmi <= BmiMax
    /\ BpMin <= r.bloodpressure /\ r.bloodpressure <= BpMax
    /\ r.gender \in Range(art.le_gender.classes)
    /\ r.smoker \in Range(art.le_smoker.classes)
    /\ r.diabetic \in Range(art.le_diabetic.classes)

\* What the widgets of main_form let through: sliders and the number input
\* hold a value within their limits, the radio and the select boxes hold one
\* of the encoder's classes_.
FormAccepts(r, art) ==
    /\ AgeMin <= r.age /\ r.age <= AgeMax
    /\ ChildrenMin <= r.children /\ r.children <= ChildrenMax
    /\ BmiMin <= r.bmi /\ r.bmi <= BmiMax
    /\ BpMin <= r.bloodpressure /\ r.bloodpressure <= BpMax
    /\ r.gender \in Range(art.le_gender.classes)
    /\ r.smoker \in Range(art.le_smoker.classes)
    /\ r.diabetic \in Range(art.le_diabetic.classes)

\* Variant: a failed predict is tried once more.
PredictBlockRetry(model, vec) ==
    LET r == Predict(model, vec)
    IN  [calls |-> IF r.ok THEN 1 ELSE 2,
         shown |-> IF r.ok THEN <<ResultEl(FormatMoney(r.value)), ScrollEl>>
                   ELSE <<PredictionErrorEl(r.exc)>>]

\* Variant: the except branch passes.
PredictBlockSilent(model, vec) ==
    LET r == Predict(model, vec)
    IN  [calls |-> 1,
         shown |-> IF r.ok THEN <<ResultEl(FormatMoney(r.value)), ScrollEl>> ELSE <<>>]

\* try: prediction = model.predict(final_input)[0]; st.markdown(result box)
\* except Exception as e: st.error(f"Prediction Error: {e}")
PredictBlock(model, vec) ==
    LET r == Predict(model, vec)
    IN  [calls |-> 1,
         shown |-> IF r.ok THEN <<ResultEl(FormatMoney(r.value)), ScrollEl>>
                   ELSE <<PredictionErrorEl(r.exc)>>]

----------------------------------------------------------------------------
(* State.                                                                  *)

VARIABLES
    deployed,       \* file name -> the artifact trained for this deployment
    disk,           \* file name -> what the file holds now, or Missing
    cache,          \* the stored result of load_artifacts, or None
    session_state,  \* st.session_state of the browser session
    css,            \* the palette injected by the last run
    screen,         \* the elements the page shows, in order
    pc,             \* where the script run is; "idle" between runs
    submitted,      \* this run was started by the form's submit button
    artifacts,      \* main's tuple of loaded artifacts, or None
    record,         \* the seven values read from the form, or None
    input_df,       \* main's input_df, or None
    final_input,    \* main's final_input, or None
    predictCalls,   \* calls of model.predict in this run
    filesRead,      \* history: the files joblib.load has read so far
    reread,         \* history: some file was read a second time
    memo            \* history: an earlier finished request and its output

vars == <<deployed, disk, cache, session_state, css, screen, pc, submitted, artifacts,
          record, input_df, final_input, predictCalls, filesRead, reread, memo>>

env == <<deployed, disk>>
locals == <<artifacts, record, input_df, final_input, predictCalls>>
history == <<filesRead, reread>>

\* A run starts with main's names unbound.
FreshLocals ==
    /\ artifacts' = None /\ record' = None /\ input_df' = None
    /\ final_input' = None /\ predictCalls' = 0

DarkMode == "dark_mode" \in DOMAIN session_state /\ session_state["dark_mode"]

Init ==
    /\ deployed \in [Files -> {IdentityScaler, StandardScaler, GenderEncoder,
                               YesNoEncoder, LinearModel, NarrowModel}]
    /\ \A f \in Files : deployed[f] \in Variants(f)
    /\ \E gone \in SUBSET Files :
          /\ Cardinality(gone) <= MaxMissing
          /\ disk = [f \in Files |-> IF f \in gone THEN Missing ELSE deployed[f]]
    /\ cache = None
    /\ session_state = [k \in {} |-> FALSE]
    /\ css = None
    /\ screen = <<>>
    /\ pc = "script"
    /\ submitted = FALSE
    /\ artifacts = None
    /\ record = None
    /\ input_df = None
    /\ final_input = None
    /\ predictCalls = 0
    /\ filesRead = {}
    /\ reread = FALSE
    /\ memo = None

\* When the next run starts, the request that has just finished may be
\* remembered with its output; one request is remembered at most.
Remember ==
    IF memo = None /\ submitted /\ record # None
    THEN {None, [rec |-> record, out |-> Output(screen)]}
    ELSE {memo}

\* The request's run ends showing scr.
Finish(scr) ==
    /\ pc' = "idle"
    /\ screen' = scr

----------------------------------------------------------------------------
(* A script run, statement group by statement group.                       *)

\* Lines 16-17, 168 and the toggle of main: the session state is set up on
\* the session's first run, the style sheet is injected, the toggle is drawn.
Script ==
    /\ pc = "script"
    /\ session_state' = IF "dark_mode" \in DOMAIN session_state THEN session_state
                        ELSE [k \in {"dark_mode"} |-> FALSE]
    /\ css' = load_css(session_state'["dark_mode"])
    /\ screen' = <<ToggleEl>>
    /\ pc' = "load"
    /\ UNCHANGED <<env, cache, submitted, locals, history, memo>>

\* scaler, le_gender, le_smoker, le_diabetic, model = load_artifacts()
LoadArtifacts ==
    /\ pc = "load"
    /\ LET r == CacheResource(cache, disk)
           m == MainAfterLoad(r, screen)
       IN  /\ cache' = r.cache
           /\ filesRead' = filesRead \cup r.read
           /\ reread' = (reread \/ (r.read \cap filesRead # {}))
           /\ artifacts' = m.artifacts
           /\ screen' = m.screen
           /\ pc' = m.pc
    /\ UNCHANGED <<env, session_state, css, submitted, record, input_df,
                   final_input, predictCalls, memo>>

\* The title and main_form; the names of the artifacts are unbound when no
\* load bound them.
RenderForm ==
    /\ pc = "form"
    /\ IF artifacts = None
       THEN /\ screen' = Append(screen, ExceptionEl("UnboundLocalError"))
            /\ pc' = "idle"
            /\ record' = None
       ELSE /\ screen' = screen \o <<TitleEl, FormEl>>
            /\ IF submitted
               THEN /\ \E r \in Attempts : FormAccepts(r, artifacts) /\ record' = r
                    /\ pc' = "encode"
               ELSE /\ record' = None
                    /\ pc' = "idle"
    /\ UNCHANGED <<env, cache, session_state, css, submitted, artifacts, input_df,
                   final_input, predictCalls, filesRead, reread, memo>>

\* input_df is built and the three categorical columns are encoded.
Encode ==
    /\ pc = "encode"
    /\ LET r == EncodeAll(MakeInputDf(record), artifacts)
       IN  /\ input_df' = r.df
           /\ IF r.ok
              THEN pc' = "scale" /\ UNCHANGED screen
              ELSE Finish(Append(screen, ExceptionEl(r.exc)))
    /\ UNCHANGED <<env, cache, session_state, css, submitted, artifacts, record,
                   final_input, predictCalls, filesRead, reread, memo>>

\* The numeric columns are scaled.
Scale ==
    /\ pc = "scale"
    /\ LET r == ScaleStep(input_df, artifacts.scaler)
           xs == [i \in 1..Len(NumFeatures) |-> input_df.row[NumFeatures[i]]]
           after == ScalerAfterTransform(artifacts.scaler, xs)
       IN  /\ input_df' = r.df
           /\ artifacts' = [artifacts EXCEPT !.scaler = after]
           /\ cache' = [cache EXCEPT !.scaler = after]
           /\ IF r.ok
              THEN pc' = "coerce" /\ UNCHANGED screen
              ELSE Finish(Append(screen, ExceptionEl(r.exc)))
    /\ UNCHANGED <<env, session_state, css, submitted, record, final_input,
                   predictCalls, filesRead, reread, memo>>

\* The categorical columns are cast to int and the model's columns selected.
Coerce ==
    /\ pc = "coerce"
    /\ LET r == CoerceStep(input_df)
       IN  /\ input_df' = r.df
           /\ final_input' = r.final
           /\ IF r.ok
              THEN pc' = "predict" /\ UNCHANGED screen
              ELSE Finish(Append(screen, ExceptionEl(r.exc)))
    /\ UNCHANGED <<env, cache, session_state, css, submitted, artifacts, record,
                   predictCalls, filesRead, reread, memo>>

\* The try block: predict and show the premium, or show the error.
PredictStep ==
    /\ pc = "predict"
    /\ LET b == PredictBlock(artifacts.model, RowVector(final_input))
       IN  /\ predictCalls' = predictCalls + b.calls
           /\ Finish(screen \o b.shown)
    /\ UNCHANGED <<env, cache, session_state, css, submitted, artifacts, record,
                   input_df, final_input, filesRead, reread, memo>>

----------------------------------------------------------------------------
(* The user and the environment, between runs.                             *)

\* The toggle's on_change callback runs, then the script reruns.
ClickToggle ==
    /\ pc = "idle"
    /\ Shows(screen, "toggle")
    /\ session_state' = ToggledTheme(session_state)
    /\ submitted' = FALSE
    /\ pc' = "script"
    /\ FreshLocals
    /\ memo' \in Remember
    /\ UNCHANGED <<env, cache, css, screen, history>>

\* The form's submit button: the script reruns with submitted = True.
ClickSubmit ==
    /\ pc = "idle"
    /\ Shows(screen, "form")
    /\ submitted' = TRUE
    /\ pc' = "script"
    /\ FreshLocals
    /\ memo' \in Remember
    /\ UNCHANGED <<env, cache, session_state, css, screen, history>>

\* The page is opened anew: a new session of the same process.
Reload ==
    /\ pc = "idle"
    /\ session_state' = [k \in {} |-> FALSE]
    /\ submitted' = FALSE
    /\ pc' = "script"
    /\ FreshLocals
    /\ memo' \in Remember
    /\ UNCHANGED <<env, cache, css, screen, history>>

\* An artifact file disappears from the working directory.
RemoveFile ==
    /\ pc = "idle"
    /\ Cardinality({f \in Files : disk[f] = Missing}) < MaxMissing
    /\ \E f \in Files : disk[f] # Missing /\ disk' = [disk EXCEPT ![f] = Missing]
    /\ UNCHANGED <<deployed, cache, session_state, css, screen, pc, submitted, locals,
                   history, memo>>

\* A missing artifact file is put back into the working directory.
PutFile ==
    /\ pc = "idle"
    /\ \E f \in Files :
          disk[f] = Missing /\ disk' = [disk EXCEPT ![f] = deployed[f]]
    /\ UNCHANGED <<deployed, cache, session_state, css, screen, pc, submitted, locals,
                   history, memo>>

Next ==
    \/ Script
    \/ LoadArtifacts
    \/ RenderForm
    \/ Encode
    \/ Scale
    \/ Coerce
    \/ PredictStep
    \/ ClickToggle
    \/ ClickSubmit
    \/ Reload
    \/ RemoveFile
    \/ PutFile

Spec == Init /\ [][Next]_vars

----------------------------------------------------------------------------
(* The pipeline of main as a function of any record: the statements under  *)
(* "if submitted" run on a record whose labels no choice list constrained. *)

RawRecords ==
    {r \in Attempts :
        /\ AgeMin <= r.age /\ r.age <= AgeMax
        /\ ChildrenMin <= r.children /\ r.children <= ChildrenMax
        /\ BmiMin <= r.bmi /\ r.bmi <= BmiMax
        /\ BpMin <= r.bloodpressure /\ r.bloodpressure <= BpMax}

SubmitRaw ==
    /\ pc = "idle"
    /\ cache # None
    /\ \E r \in RawRecords : record' = r
    /\ artifacts' = cache
    /\ submitted' = TRUE
    /\ screen' = <<ToggleEl, TitleEl, FormEl>>
    /\ input_df' = None /\ final_input' = None /\ predictCalls' = 0
    /\ pc' = "encode"
    /\ memo' \in Remember
    /\ UNCHANGED <<env, cache, session_state, css, history>>

NextPipeline ==
    \/ Next
    \/ SubmitRaw

SpecPipeline == Init /\ [][NextPipeline]_vars

----------------------------------------------------------------------------
(* Properties.                                                             *)

\* The position of a label in a class list, counted from 0.
CodeOf(classes, label) == Cardinality({i \in 1..Len(classes) : i < IndexOf(classes, label)})

\* (x - mean) / scale in tenths, for column i of the scaler.
Scaled(scaler, i, tenths) == TruncDiv((tenths - scaler.mean[i]) * 10, scaler.scale[i])

\* A request's pipeline has assembled the predictor's input.
Assembled == final_input # None /\ record # None /\ artifacts # None

\* C1: the vector handed to the predictor has exactly the seven columns
\* age, gender, bmi, bloodpressure, diabetic, children, smoker in this order,
\* the three categorical positions hold the codes of the submitted labels;
\* the example record under the identity scaler is [30, 1, 25.0, 120, 0, 0, 0]
\* and the premium shown is the predictor's output for the vector.
C1_FeatureVector ==
    Assembled =>
        LET v == RowVector(final_input)
        IN  /\ final_input.cols =
                 <<"age", "gender", "bmi", "bloodpressure", "diabetic", "children", "smoker">>
            /\ Len(v) = 7
            /\ v[2] = IntCell(CodeOf(artifacts.le_gender.classes, record.gender))
            /\ v[5] = IntCell(CodeOf(artifacts.le_diabetic.classes, record.diabetic))
            /\ v[7] = IntCell(CodeOf(artifacts.le_smoker.classes, record.smoker))
            /\ v[6] = IntCell(record.children)
            /\ v[1] = FloatCell(Scaled(artifacts.scaler, 1, record.age * 10))
            /\ v[3] = FloatCell(Scaled(artifacts.scaler, 2, record.bmi))
            /\ v[4] = FloatCell(Scaled(artifacts.scaler, 3, record.bloodpressure * 10))
            /\ (record = ExampleRecord /\ artifacts.scaler = IdentityScaler) =>
                 [i \in 1..7 |-> Tenths(v[i])] = <<300, 10, 250, 1200, 0, 0, 0>>
            /\ (pc = "idle" /\ Shows(screen, "result")) =>
                 /\ Output(screen).value =
                      FormatMoney(artifacts.model.bias
                                  + Dot(artifacts.model.w, v, 7))
                 /\ (record = ExampleRecord /\ artifacts.scaler = IdentityScaler) =>
                      Output(screen).value =
                        <<"$", "9", ",", "0", "4", "4", ".", "8", "5">>

C1_Witness ==
    /\ pc = "idle"
    /\ Assembled
    /\ record = ExampleRecord
    /\ artifacts.scaler = IdentityScaler
    /\ Shows(screen, "result")

\* The pipeline has passed the scaling step of this request.
ScalingDone == record # None /\ input_df # None /\ (pc \in {"coerce", "predict"} \/ final_input # None)

\* C2: the scaler is applied to age, bmi and bloodpressure, in this order,
\* and to nothing else: children and the three codes are what they were
\* before the scaling, in input_df and in the predictor's input.
C2_ScaledSubset ==
    ScalingDone =>
        /\ input_df.row["age"] = FloatCell(Scaled(artifacts.scaler, 1, record.age * 10))
        /\ input_df.row["bmi"] = FloatCell(Scaled(artifacts.scaler, 2, record.bmi))
        /\ input_df.row["bloodpressure"] =
             FloatCell(Scaled(artifacts.scaler, 3, record.bloodpressure * 10))
        /\ input_df.row["children"] = IntCell(record.children)
        /\ input_df.row["gender"] = IntCell(CodeOf(artifacts.le_gender.classes, record.gender))
        /\ input_df.row["diabetic"] = IntCell(CodeOf(artifacts.le_diabetic.classes, record.diabetic))
        /\ input_df.row["smoker"] = IntCell(CodeOf(artifacts.le_smoker.classes, record.smoker))
        /\ final_input # None =>
             \A c \in {"children", "gender", "diabetic", "smoker"} :
                 final_input.row[c] = input_df.row[c]

C2_Witness ==
    /\ pc = "predict"
    /\ ScalingDone
    /\ artifacts.scaler = StandardScaler
    /\ record.children = ChildrenMax
    /\ final_input.row["children"] = IntCell(ChildrenMax)

\* Some categorical value of the request is not in its encoder's class list.
UnknownLabel ==
    /\ record # None
    /\ artifacts # None
    /\ \/ record.gender \notin Range(artifacts.le_gender.classes)
       \/ record.diabetic \notin Range(artifacts.le_diabetic.classes)
       \/ record.smoker \notin Range(artifacts.le_smoker.classes)

\* C3: a categorical value that is not in its encoder's class list makes
\* the encoding raise for the request: the value gets no code, the request
\* ends with the error, and the predictor is not invoked.
C3_UnknownCategory ==
    (UnknownLabel /\ pc # "encode") =>
        /\ pc = "idle"
        /\ screen[Len(screen)] = ExceptionEl("ValueError")
        /\ ~Shows(screen, "result")
        /\ predictCalls = 0
        /\ final_input = None
        /\ \A c \in {"gender", "diabetic", "smoker"} :
               record[c] \notin Range(artifacts["le_" \o c].classes)
                   => input_df.row[c] = StrCell(record[c])

C3_Witness ==
    /\ UnknownLabel
    /\ pc = "idle"
    /\ record.gender = "other"
    /\ screen[Len(screen)] = ExceptionEl("ValueError")

\* The places of a run where an encoder, the scaler or the predictor is used.
UsePcs == {"form", "encode", "scale", "coerce", "predict"}

\* C4: wherever a run uses an encoder, the scaler or the predictor, the
\* load of this run has succeeded and bound all five artifacts, each read
\* from its file.
C4_LoadBeforeUse ==
    pc \in UsePcs =>
        /\ artifacts # None
        /\ artifacts = cache
        /\ artifacts.scaler.kind = "scaler"
        /\ artifacts.le_gender.kind = "encoder"
        /\ artifacts.le_smoker.kind = "encoder"
        /\ artifacts.le_diabetic.kind = "encoder"
        /\ artifacts.model.kind = "model"
        /\ filesRead = Files

C4_Witness ==
    /\ pc = "predict"
    /\ artifacts = cache
    /\ \E f \in Files : disk[f] = Missing

\* The body of load_artifacts is about to run with a file missing.
LoadWillFail == pc = "load" /\ cache = None /\ \E f \in Files : disk[f] = Missing

\* C5: when the body of load_artifacts runs with one of the five files
\* missing, nothing is cached and no tuple is bound, the page shows the
\* load error, and the run ends there: no form, no prediction.
C5_MissingFile ==
    [][LoadWillFail =>
         /\ cache' = None
         /\ artifacts' = None
         /\ screen' = <<ToggleEl, LoadErrorEl>>
         /\ pc' = "idle"
         /\ predictCalls' = 0
         /\ record' = None]_vars

C5_Witness ==
    /\ pc = "idle"
    /\ screen = <<ToggleEl, LoadErrorEl>>
    /\ cache = None
    /\ filesRead # {}
    /\ disk[ModelFile] = Missing

\* A submitted request has finished.
RequestDone == pc = "idle" /\ submitted /\ record # None

\* C6: two requests with the same record end with the same output, whatever
\* happened between them.
C6_SameRecordSameOutput ==
    (RequestDone /\ memo # None /\ memo.rec = record) =>
        Output(screen) = memo.out

C6_Witness ==
    /\ RequestDone
    /\ memo # None
    /\ memo.rec = record
    /\ DarkMode
    /\ \E f \in Files : disk[f] = Missing
    /\ Shows(screen, "result")
    /\ Output(screen) = memo.out

\* C7 as stated: no artifact file is read from disk more than once.
C7_ReadAtMostOnce == ~reread

\* C7, amended: once a load has succeeded no artifact file is read again,
\* the cached tuple never changes, and every run that binds the artifacts
\* binds the cached tuple.
C7_LoadOnceAfterSuccess ==
    /\ [][cache # None =>
            /\ cache' = cache
            /\ filesRead' = filesRead
            /\ reread' = reread]_vars
    /\ [](artifacts # None => artifacts = cache)

C7_Witness ==
    /\ pc = "predict"
    /\ artifacts = cache
    /\ disk[ScalerFile] = Missing
    /\ reread

\* The predictor is about to reject the assembled vector.
PredictWillFail ==
    /\ pc = "predict"
    /\ Len(RowVector(final_input)) # artifacts.model.nfeat

\* C8: when the predictor rejects the vector the request ends with the
\* prediction error on the page and no premium, predict was called once,
\* and the cache, the session and the files are as they were.
C8_PredictionError ==
    [][PredictWillFail =>
         /\ pc' = "idle"
         /\ screen' = Append(screen, ErrorEl("Prediction Error: ValueError"))
         /\ ~Shows(screen', "result")
         /\ predictCalls' = 1
         /\ cache' = cache
         /\ artifacts' = artifacts
         /\ session_state' = session_state
         /\ disk' = disk]_vars

C8_Witness ==
    /\ pc = "idle"
    /\ submitted
    /\ predictCalls = 1
    /\ screen[Len(screen)] = ErrorEl("Prediction Error: ValueError")

\* chars reads $, digits in groups of three, a point and two digits.
IsCurrency(chars) ==
    /\ Len(chars) >= 5
    /\ chars[1] = "$"
    /\ chars[Len(chars) - 2] = "."
    /\ \A i \in 2..Len(chars) :
          \/ i = Len(chars) - 2
          \/ chars[i] \in {"0", "1", "2", "3", "4", "5", "6", "7", "8", "9"}
          \/ (chars[i] = "," /\ i < Len(chars) - 2 /\ (Len(chars) - 2 - i) % 4 = 0)
          \/ (chars[i] = "-" /\ i = 2)

\* C9: a submitted request ends with exactly one output on the page: the
\* premium as a currency string, or an error; a request that did not get to
\* a premium shows the error of the step that failed.
C9_OneOutput ==
    /\ (pc \in {"encode", "scale", "coerce", "predict"}) => Outputs(screen) = {}
    /\ (pc = "idle" /\ submitted) =>
          /\ Cardinality(Outputs(screen)) = 1
          /\ LET out == Output(screen)
             IN  \/ out.kind = "result" /\ IsCurrency(out.value) /\ predictCalls = 1
                 \/ out.kind = "error" /\ out.text = "Prediction Error: ValueError"
                       /\ predictCalls = 1
                 \/ out.kind = "exception" /\ out.text = "ValueError"
                       /\ predictCalls = 0

C9_Witness ==
    /\ pc = "idle"
    /\ submitted
    /\ screen[Len(screen)].kind = "exception"
    /\ memo # None
    /\ memo.out.kind = "result"

\* C10: a record that reaches the pipeline is within the limits of the
\* form: age in 18..100 (so never 101), bmi in 10.0..60.0, children in
\* 0..10, bloodpressure in 60..200, each label one of its encoder's classes.
C10_FormConstrains ==
    (record # None) =>
        /\ record.age \in 18..100
        /\ record.age # 101
        /\ record.bmi \in 100..600
        /\ record.children \in 0..10
        /\ record.bloodpressure \in 60..200
        /\ record.gender \in Range(cache.le_gender.classes)
        /\ record.diabetic \in Range(cache.le_diabetic.classes)
        /\ record.smoker \in Range(cache.le_smoker.classes)

C10_Witness ==
    /\ pc = "encode"
    /\ record.age = 100
    /\ memo # None
    /\ memo.rec.age = 18
    /\ memo.out.kind = "result"

====
